---- MODULE Spec2Model ----
(***************************************************************************)
(* Model of the behaviorfleets delegation handshake:                       *)
(*   DelegateActionNodeAny      (the delegator, a BT action node)          *)
(*   RemoteDelegateActionNode   (the worker, a ROS 2 node with a timer)    *)
(* Topics are strings, built as the code builds them.  A shared or command *)
(* topic holds the set of messages published on it; a subscriber may be    *)
(* handed any of them any number of times, or never (loss, duplication,    *)
(* reordering).  A status topic has one publisher and delivers in order:   *)
(* it holds the latest message, handed over any number of times or never.  *)
(* Messages are compared by their fields.  The name validation that the    *)
(* middleware applies to topic names is not part of the sources modelled.  *)
(***************************************************************************)
EXTENDS Naturals, Sequences, FiniteSets, TLC

VARIABLES
  \* ---- DelegateActionNodeAny ----
  delegator_mission_id_,  \* mission_id_ of the delegator
  remote_tree_,           \* XML text read in the constructor
  remote_id_,
  remote_identified_,
  poll_answ_,             \* the message moved into poll_answ_, or NoMsg
  remote_status_,         \* status of the last MissionStatus stored, or NoStatus
  mission_pub_,           \* topic of the publisher mission_pub_
  remote_sub_,            \* topic of the subscription remote_sub_, or NoTopic
  \* ---- RemoteDelegateActionNode, one per id_ ----
  mission_id_,            \* capability tag
  working_,
  can_do_it_,
  mission_,               \* last message moved into mission_, or NoMsg
  tree_,                  \* XML text of the tree held by tree_, or NoTree
  \* ---- transport ----
  net,                    \* set of [topic, msg] published so far
  \* ---- observation (history) ----
  polls_sent,             \* number of polls published by the delegator's tick
  commands_sent,          \* sequence of [topic, msg] published by the poll callback
  step_log,               \* per worker: results of executeTick since the last build
  last                    \* what the last handler did

dvars == <<delegator_mission_id_, remote_tree_, remote_id_, remote_identified_,
           poll_answ_, remote_status_, mission_pub_, remote_sub_>>
wvars == <<mission_id_, working_, can_do_it_, mission_, tree_>>
hvars == <<polls_sent, commands_sent, step_log>>
vars  == <<dvars, wvars, net, hvars, last>>

\* ------------------------------------------------------------------ bounds
MaxPolls == 2    \* polls of the delegator's tick that are counted
MaxSteps == 3
\* the number of status messages the transport may lose
MaxLost == 1    \* steps within which the engine returns a terminal result

\* --------------------------------------------------------------- universe
Workers  == {"W1", "W2"}
Missions == {"patrol-1", "inspect-1"}
GoodTree == "<root/>"
Trees    == {GoodTree}

NoMsg    == [none |-> TRUE]
NoStatus == "nullptr"
NoTopic  == "none"
NoTree   == "none"

\* bf_msgs constants, by name
COMMAND == "COMMAND"
REQUEST == "REQUEST"
STATUS  == "STATUS"
IDLE    == "IDLE"
RUNNING == "RUNNING"
SUCCESS == "SUCCESS"
FAILURE == "FAILURE"

\* a bf_msgs message: the fields the two nodes read or write
Msg(type, robot_id, mission_id, status, mission_tree) ==
  [msg_type |-> type, robot_id |-> robot_id, mission_id |-> mission_id,
   status |-> status, mission_tree |-> mission_tree]

\* a message of the delegator: only the fields it sets are non-default
MissionCommand(robot_id, mission_id, mission_tree) ==
  Msg(COMMAND, robot_id, mission_id, IDLE, mission_tree)

\* ------------------------------------------------------------------ topics
PollTopic           == "/mission_poll"
DelegatorPollTopic  == "/mission_command"
CommandTopic(id)    == "/" \o id \o "/mission_command"
StatusTopic(id)     == "/" \o id \o "/mission_status"

\* topics a worker subscribes to in init()
WorkerSubscriptions(w) == {PollTopic, CommandTopic(w)}

Pub(topic, msg) == [topic |-> topic, msg |-> msg]
StatusTopics    == {StatusTopic(w) : w \in Workers}
\* the transport after the publication out
Publish(out) ==
  IF out.topic \in StatusTopics
    THEN {q \in net : q.topic # out.topic} \cup {out}
    ELSE net \cup {out}
OnTopic(topic)  == {p.msg : p \in {q \in net : q.topic = topic}}

DPre == [remote_identified_ |-> remote_identified_, remote_id_ |-> remote_id_,
         remote_status_ |-> remote_status_, mission_pub_ |-> mission_pub_,
         remote_sub_ |-> remote_sub_, polls_sent |-> polls_sent]
WPre(w) == [working_ |-> working_[w], can_do_it_ |-> can_do_it_[w],
            mission_ |-> mission_[w], tree_ |-> tree_[w],
            step_log |-> step_log[w]]

\* the record of one handler run: the handler, the node, the message handed
\* over, the node's fields before, the publications in order, the number of
\* executeTick calls, the value returned
Last(op, who, msg, pre, pub, steps, ret) ==
  [op |-> op, who |-> who, msg |-> msg, pre |-> pre, pub |-> pub,
   steps |-> steps, ret |-> ret]

\* ------------------------------------------------------------- initial state
working_init           == FALSE
can_do_it_init         == TRUE
remote_identified_init == FALSE

Init ==
  /\ delegator_mission_id_ = "patrol-1"
  /\ remote_tree_ \in Trees
  /\ remote_id_ = "not_set"
  /\ remote_identified_ = remote_identified_init
  /\ poll_answ_ = NoMsg
  /\ remote_status_ = NoStatus
  /\ mission_pub_ = DelegatorPollTopic
  /\ remote_sub_ = NoTopic
  /\ mission_id_ \in {f \in [Workers -> Missions] : f["W1"] = "patrol-1"}
  /\ working_ = [w \in Workers |-> working_init]
  /\ can_do_it_ = [w \in Workers |-> can_do_it_init]
  /\ mission_ = [w \in Workers |-> NoMsg]
  /\ tree_ = [w \in Workers |-> NoTree]
  /\ net = {}
  /\ polls_sent = 0
  /\ commands_sent = <<>>
  /\ step_log = [w \in Workers |-> <<>>]
  /\ last = Last("init", "none", NoMsg, NoMsg, <<>>, 0, "void")

\* ------------------------------------------------- DelegateActionNodeAny
\* mutants of the guard: every answer is accepted; a second answer is accepted
AcceptsAnswer_always == TRUE
AcceptsAnswer_twice  == Len(commands_sent) < 2

\* the guard of the poll callback ("ignore answers from other robots")
AcceptsAnswer == ~remote_identified_

\* mission_poll_callback of the delegator, handed msg from /mission_poll
Delegate_mission_poll_callback(msg) ==
  /\ IF AcceptsAnswer
       THEN LET id  == msg.robot_id
                out == Pub(CommandTopic(id), MissionCommand(id, "", remote_tree_))
            IN  /\ poll_answ_' = msg
                /\ remote_id_' = id
                /\ remote_sub_' = StatusTopic(id)
                /\ mission_pub_' = CommandTopic(id)
                /\ net' = Publish(out)
                /\ commands_sent' = Append(commands_sent, out)
                /\ remote_identified_' = TRUE
                /\ last' = Last("Delegate_mission_poll_callback", "delegator",
                                msg, DPre, <<out>>, 0, "void")
       ELSE /\ UNCHANGED <<poll_answ_, remote_id_, remote_sub_, mission_pub_, net,
                           commands_sent, remote_identified_>>
            /\ last' = Last("Delegate_mission_poll_callback", "delegator",
                            msg, DPre, <<>>, 0, "void")
  /\ UNCHANGED <<delegator_mission_id_, remote_tree_, remote_status_, wvars,
                 polls_sent, step_log>>

\* remote_status_callback, handed msg from the topic of remote_sub_
remote_status_callback(msg) ==
  /\ remote_status_' = msg.status
  /\ last' = Last("remote_status_callback", "delegator", msg, DPre, <<>>, 0, "void")
  /\ UNCHANGED <<delegator_mission_id_, remote_tree_, remote_id_, poll_answ_,
                 remote_identified_, mission_pub_, remote_sub_, wvars, net, hvars>>

\* mutant of the switch: a status without a case of its own ends in FAILURE
TickStatus_other_failure(status) ==
  CASE status = RUNNING -> RUNNING
    [] status = SUCCESS -> SUCCESS
    [] OTHER            -> FAILURE

\* the switch of tick(): the BT status returned for a stored remote status
TickStatus(status) ==
  CASE status = RUNNING -> RUNNING
    [] status = SUCCESS -> SUCCESS
    [] status = FAILURE -> FAILURE
    [] OTHER            -> RUNNING

\* the poll that tick() publishes
DelegatorPoll == Pub(mission_pub_, MissionCommand("", delegator_mission_id_, ""))

Min(a, b) == IF a < b THEN a ELSE b

\* tick() of the delegator
Delegate_tick ==
  /\ IF ~remote_identified_
       THEN /\ net' = Publish(DelegatorPoll)
            /\ polls_sent' = Min(polls_sent + 1, MaxPolls)
            /\ last' = Last("Delegate_tick", "delegator", NoMsg, DPre,
                            <<DelegatorPoll>>, 0, RUNNING)
       ELSE /\ last' = Last("Delegate_tick", "delegator", NoMsg, DPre, <<>>, 0,
                            IF remote_status_ # NoStatus
                              THEN TickStatus(remote_status_) ELSE RUNNING)
            /\ UNCHANGED <<net, polls_sent>>
  /\ UNCHANGED <<dvars, wvars, commands_sent, step_log>>

\* ----------------------------------------------- RemoteDelegateActionNode
\* mutants of the busy guard: it is dropped; it reads the wrong flag
NotBusy_dropped(w)   == TRUE
NotBusy_can_do_it(w) == can_do_it_[w]

\* "ignore missions if already working"
NotBusy(w) == ~working_[w]

\* the poll is addressed to nobody or to this worker
ForMe(w, msg) == ~(msg.robot_id # "" /\ msg.robot_id # w)

\* mutant of the tag comparison: every mission is answered
CanDo_any(w, msg) == TRUE

\* the capability tag matches the poll
CanDo(w, msg) == msg.mission_id = mission_id_[w]

\* the answer of worker w to a poll
Request(w) == Pub(PollTopic, Msg(REQUEST, w, mission_id_[w], IDLE, ""))

\* mutant of the kind check: every message is taken for a command
IsCommandKind_any(msg) == TRUE

\* the kind check that opens both callbacks of the worker
IsCommandKind(msg) == msg.msg_type = COMMAND

\* mission_poll_callback of worker w, handed msg from /mission_poll
Remote_mission_poll_callback(w, msg) ==
  /\ IF ~IsCommandKind(msg)
       THEN /\ UNCHANGED <<can_do_it_, mission_, net>>
            /\ last' = Last("Remote_mission_poll_callback", w, msg, WPre(w),
                            <<>>, 0, "void")
       ELSE IF NotBusy(w)
         THEN /\ can_do_it_' = [can_do_it_ EXCEPT ![w] = TRUE]
              /\ mission_' = [mission_ EXCEPT ![w] = msg]
              /\ IF ForMe(w, msg) /\ CanDo(w, msg)
                   THEN /\ net' = Publish(Request(w))
                        /\ last' = Last("Remote_mission_poll_callback", w, msg,
                                        WPre(w), <<Request(w)>>, 0, "void")
                   ELSE /\ UNCHANGED net
                        /\ last' = Last("Remote_mission_poll_callback", w, msg,
                                        WPre(w), <<>>, 0, "void")
         ELSE /\ UNCHANGED <<can_do_it_, mission_, net>>
              /\ last' = Last("Remote_mission_poll_callback", w, msg, WPre(w),
                              <<>>, 0, "void")
  /\ UNCHANGED <<dvars, mission_id_, working_, tree_, hvars>>

\* outcomes of registerFromPlugin / createTreeFromText for an XML text:
\* an empty text throws; any other throws when a plugin or a node is missing
BuildOutcomes(xml) == IF xml = "" THEN {FALSE} ELSE {TRUE, FALSE}

\* what create_tree() publishes when the build throws
BuildFailureStatus == IDLE

\* create_tree() of worker w for the message in mission_, with build outcome ok:
\* the value returned, the tree held afterwards, the statuses published
create_tree(w, msg, ok) ==
  IF ok THEN [ret |-> TRUE,  tree |-> msg.mission_tree, pub |-> <<>>]
        ELSE [ret |-> FALSE, tree |-> tree_[w],
              pub |-> <<Pub(StatusTopic(w), Msg(STATUS, w, "", BuildFailureStatus, ""))>>]

BoolStr(b) == IF b THEN "true" ELSE "false"

\* the transport after the publications of pubs, in order (at most one here)
PublishAll(pubs) == IF pubs = <<>> THEN net ELSE Publish(pubs[1])

\* mission_callback of worker w, handed msg from /<id_>/mission_command
mission_callback(w, msg) ==
  /\ IF ~IsCommandKind(msg)
       THEN /\ UNCHANGED <<working_, can_do_it_, mission_, tree_, net, step_log>>
            /\ last' = Last("mission_callback", w, msg, WPre(w), <<>>, 0, "void")
       ELSE IF NotBusy(w)
         THEN /\ mission_' = [mission_ EXCEPT ![w] = msg]
              /\ IF msg.robot_id = w
                   THEN \E ok \in BuildOutcomes(msg.mission_tree) :
                          LET r == create_tree(w, msg, ok)
                          IN  /\ working_' = [working_ EXCEPT ![w] = r.ret]
                              /\ can_do_it_' = [can_do_it_ EXCEPT ![w] = r.ret]
                              /\ tree_' = [tree_ EXCEPT ![w] = r.tree]
                              /\ net' = PublishAll(r.pub)
                              /\ step_log' = [step_log EXCEPT ![w] = <<>>]
                              /\ last' = Last("mission_callback", w, msg, WPre(w),
                                              r.pub, 0, BoolStr(r.ret))
                   ELSE /\ UNCHANGED <<working_, can_do_it_, tree_, net, step_log>>
                        /\ last' = Last("mission_callback", w, msg, WPre(w),
                                        <<>>, 0, "void")
         ELSE /\ UNCHANGED <<working_, can_do_it_, mission_, tree_, net, step_log>>
              /\ last' = Last("mission_callback", w, msg, WPre(w), <<>>, 0, "void")
  /\ UNCHANGED <<dvars, mission_id_, polls_sent, commands_sent>>

\* results executeTick() may return: the engine ends within MaxSteps steps
StepResults(w) ==
  IF Len(step_log[w]) + 1 < MaxSteps THEN {RUNNING, SUCCESS, FAILURE}
                                     ELSE {SUCCESS, FAILURE}

\* mutants of the switch: SUCCESS falls into the RUNNING case; the terminal
\* cases are swapped
StatusOfStep_success_running(r) == IF r = FAILURE THEN FAILURE ELSE RUNNING
StatusOfStep_swapped(r) ==
  CASE r = RUNNING -> RUNNING
    [] r = SUCCESS -> FAILURE
    [] r = FAILURE -> SUCCESS

\* the switch of control_cycle(): the status published for a step result
StatusOfStep(r) ==
  CASE r = RUNNING -> RUNNING
    [] r = SUCCESS -> SUCCESS
    [] r = FAILURE -> FAILURE

\* the switch of control_cycle(): working_ after a step result
WorkingAfterStep(r) == r = RUNNING

\* the status message of control_cycle()
StatusMsg(w, status) == Pub(StatusTopic(w), Msg(STATUS, w, "", status, ""))

\* control_cycle() of worker w, the 50 ms timer
control_cycle(w) ==
  /\ IF working_[w]
       THEN \E r \in StepResults(w) :
              /\ step_log' = [step_log EXCEPT ![w] = Append(@, r)]
              /\ working_' = [working_ EXCEPT ![w] = WorkingAfterStep(r)]
              /\ net' = Publish(StatusMsg(w, StatusOfStep(r)))
              /\ last' = Last("control_cycle", w, NoMsg, WPre(w),
                              <<StatusMsg(w, StatusOfStep(r))>>, 1, r)
       ELSE IF can_do_it_[w]
         THEN /\ UNCHANGED <<working_, net, step_log>>
              /\ last' = Last("control_cycle", w, NoMsg, WPre(w), <<>>, 0, "void")
         ELSE /\ net' = Publish(StatusMsg(w, FAILURE))
              /\ last' = Last("control_cycle", w, NoMsg, WPre(w),
                              <<StatusMsg(w, FAILURE)>>, 0, "void")
              /\ UNCHANGED <<working_, step_log>>
  /\ UNCHANGED <<dvars, mission_id_, can_do_it_, mission_, tree_,
                 polls_sent, commands_sent>>

\* ---------------------------------------------------------------- transport
\* polls of other agents of the fleet on the shared topic: one for anybody,
\* and one addressed to W1 when both workers have the same tag, or one for
\* the other mission otherwise
ExternalPolls ==
  { Msg(COMMAND, "", "patrol-1", IDLE, ""),
    IF mission_id_["W2"] = "patrol-1"
      THEN Msg(COMMAND, "W1", "patrol-1", IDLE, "")
      ELSE Msg(COMMAND, "", "inspect-1", IDLE, "") }

ExternalPoll(msg) ==
  /\ net' = Publish(Pub(PollTopic, msg))
  /\ last' = Last("ExternalPoll", "none", msg, NoMsg, <<>>, 0, "void")
  /\ UNCHANGED <<dvars, wvars, hvars>>

DeliverAnswer   == \E msg \in OnTopic(PollTopic) : Delegate_mission_poll_callback(msg)
DeliverStatus   == \E msg \in OnTopic(remote_sub_) : remote_status_callback(msg)
DeliverPoll     == \E w \in Workers : \E msg \in OnTopic(PollTopic) :
                      Remote_mission_poll_callback(w, msg)
DeliverCommand  == \E w \in Workers : \E msg \in OnTopic(CommandTopic(w)) :
                      mission_callback(w, msg)
WorkerTimer     == \E w \in Workers : control_cycle(w)
FleetPoll       == \E msg \in ExternalPolls : ExternalPoll(msg)

Next ==
  \/ Delegate_tick
  \/ DeliverAnswer
  \/ DeliverStatus
  \/ DeliverPoll
  \/ DeliverCommand
  \/ WorkerTimer
  \/ FleetPoll

Spec == Init /\ [][Next]_vars

\* the delegator built on an XML file that is missing or empty: the stream
\* read in the constructor yields the empty text
InitEmptyTree ==
  /\ delegator_mission_id_ = "patrol-1"
  /\ remote_tree_ = ""
  /\ remote_id_ = "not_set"
  /\ remote_identified_ = remote_identified_init
  /\ poll_answ_ = NoMsg
  /\ remote_status_ = NoStatus
  /\ mission_pub_ = DelegatorPollTopic
  /\ remote_sub_ = NoTopic
  /\ mission_id_ \in {f \in [Workers -> Missions] : f["W1"] = "patrol-1"}
  /\ working_ = [w \in Workers |-> working_init]
  /\ can_do_it_ = [w \in Workers |-> can_do_it_init]
  /\ mission_ = [w \in Workers |-> NoMsg]
  /\ tree_ = [w \in Workers |-> NoTree]
  /\ net = {}
  /\ polls_sent = 0
  /\ commands_sent = <<>>
  /\ step_log = [w \in Workers |-> <<>>]
  /\ last = Last("init", "none", NoMsg, NoMsg, <<>>, 0, "void")

SpecEmptyTree == InitEmptyTree /\ [][Next]_vars

\* the fleet with every message on a topic eventually handed to each
\* subscriber, the delegator ticked again and again by its tree, and the
\* 50 ms timers of the workers running; polls of other nodes may never come
SpecLive ==
  /\ Init
  /\ [][Next]_vars
  /\ WF_vars(Delegate_tick)
  /\ WF_vars(DeliverAnswer)
  /\ WF_vars(DeliverStatus)
  /\ WF_vars(DeliverPoll)
  /\ WF_vars(DeliverCommand)
  /\ WF_vars(WorkerTimer)

\* the messages the transport has lost, kept apart from every topic
LostTopic == "lost"
Lost      == {q \in net : q.topic = LostTopic}
\* the transport loses the status message on its way to the delegator's
\* subscription: a publication is fire-and-forget, no handler runs and no
\* node learns of it
LoseStatus ==
  /\ Cardinality(Lost) < MaxLost
  /\ \E q \in net :
       /\ q.topic \in StatusTopics
       /\ q.topic = remote_sub_
       /\ net' = (net \ {q}) \cup
                   {[topic |-> LostTopic, msg |-> NoMsg, n |-> Cardinality(Lost) + 1]}
  /\ UNCHANGED <<dvars, wvars, hvars, last>>

NextLoss ==
  \/ Next
  \/ LoseStatus

\* the fleet over a transport that loses at most MaxLost status messages;
\* the delegator is ticked again and again, the workers' timers run and a
\* status waiting on the subscribed topic is eventually handed over
SpecLoss ==
  /\ Init
  /\ [][NextLoss]_vars
  /\ WF_vars(Delegate_tick)
  /\ WF_vars(DeliverStatus)
  /\ WF_vars(WorkerTimer)

\* the workers alone, with another node publishing on the command topic of
\* W1: commands that carry a tree and the robot_id of either worker
OtherCommands == {Msg(COMMAND, r, "", IDLE, GoodTree) : r \in Workers}

OtherCommand(w, msg) ==
  /\ net' = Publish(Pub(CommandTopic(w), msg))
  /\ last' = Last("OtherCommand", "none", msg, NoMsg, <<>>, 0, "void")
  /\ UNCHANGED <<dvars, wvars, hvars>>

OtherCommander == \E msg \in OtherCommands : OtherCommand("W1", msg)

NextWorkers ==
  \/ FleetPoll
  \/ DeliverPoll
  \/ OtherCommander
  \/ DeliverCommand
  \/ WorkerTimer

SpecWorkers == Init /\ [][NextWorkers]_vars

\* =================================================================== claims
IsDelegatorAnswer == last.op = "Delegate_mission_poll_callback"
IsWorkerPoll      == last.op = "Remote_mission_poll_callback"
IsWorkerCommand   == last.op = "mission_callback"
IsWorkerTimer     == last.op = "control_cycle"
Terminal          == {SUCCESS, FAILURE}

\* the worker fields of w as WPre records them
WNow(w) == WPre(w)

\* C1 - at most one binding: once the delegator's poll callback has handled a
\* message, exactly one mission command has been published over its lifetime,
\* on the command topic of, and addressed to, the sender of the first message
\* handled; a later answer publishes nothing and changes neither remote_id_
\* nor any other field of the delegator.
C1_AtMostOneBinding ==
  /\ Len(commands_sent) <= 1
  /\ remote_identified_ <=> Len(commands_sent) = 1
  /\ remote_identified_ <=> poll_answ_ # NoMsg
  /\ remote_identified_ =>
       /\ remote_id_ = poll_answ_.robot_id
       /\ commands_sent[1].topic = CommandTopic(poll_answ_.robot_id)
       /\ commands_sent[1].msg.robot_id = poll_answ_.robot_id
       /\ commands_sent[1].msg.mission_tree = remote_tree_
  /\ (IsDelegatorAnswer /\ ~last.pre.remote_identified_) =>
       /\ poll_answ_ = last.msg
       /\ last.pub = commands_sent
  /\ (IsDelegatorAnswer /\ last.pre.remote_identified_) =>
       /\ last.pub = <<>>
       /\ DPre = last.pre

\* C1 witness: a second answer, from another worker than the one bound, has
\* been handled after the binding.
C1_Witness ==
  /\ IsDelegatorAnswer
  /\ last.pre.remote_identified_
  /\ poll_answ_.msg_type = REQUEST
  /\ last.msg.msg_type = REQUEST
  /\ last.msg.robot_id # poll_answ_.robot_id

\* workers that have been sent a mission tree
SentTree == {w \in Workers : \E m \in OnTopic(CommandTopic(w)) : m.mission_tree # ""}

\* C2 - mutual exclusion across the fleet: whatever the interleaving, at most
\* one worker is ever sent the mission tree, only that worker ever holds a
\* tree or steps it, and at most one worker is working.
C2_MutualExclusion ==
  /\ Cardinality(SentTree) <= 1
  /\ Cardinality({w \in Workers : working_[w]}) <= 1
  /\ \A w \in Workers :
       (working_[w] \/ tree_[w] # NoTree \/ step_log[w] # <<>>) =>
          /\ w \in SentTree
          /\ remote_id_ = w

\* C2 witness: both workers have answered the same poll and one of them is
\* working.
C2_Witness ==
  /\ \A w \in Workers : Request(w) \in net /\ mission_id_[w] = "patrol-1"
  /\ \E w \in Workers : working_[w]

\* C3 - busy exclusivity: a poll or a command handed to a working worker
\* leaves its mission, its tree, its step history and its busy flag as they
\* were; working_ goes from false to true only in mission_callback, and then
\* the tree held before was never stepped or its last step was terminal.
C3_BusyExclusivity ==
  /\ \A w \in Workers :
       /\ working_[w] => \A i \in 1..Len(step_log[w]) : step_log[w][i] = RUNNING
       /\ (~working_[w] /\ step_log[w] # <<>>) =>
             step_log[w][Len(step_log[w])] \in Terminal
  /\ ((IsWorkerPoll \/ IsWorkerCommand) /\ last.pre.working_) =>
       WNow(last.who) = last.pre
  /\ (last.who \in Workers /\ ~last.pre.working_ /\ working_[last.who]) =>
       /\ IsWorkerCommand
       /\ last.msg.robot_id = last.who
       /\ \/ last.pre.step_log = <<>>
          \/ last.pre.step_log[Len(last.pre.step_log)] \in Terminal

\* C3 witness: a worker that was handed a poll and a command while working,
\* and then finished, has accepted a command again.
C3_Witness ==
  /\ IsWorkerCommand
  /\ ~last.pre.working_
  /\ working_[last.who]
  /\ last.pre.step_log # <<>>
  /\ last.pre.mission_ = last.msg

\* C4 - eligibility filter: the worker's poll callback publishes only when
\* the worker was not working and the poll's mission_id equals its tag; what
\* it publishes is one REQUEST on the shared topic carrying its own id.  Every
\* REQUEST on the shared topic carries the tag of its sender.
C4_EligibilityFilter ==
  /\ IsWorkerPoll =>
       /\ (last.pre.working_ \/ last.msg.mission_id # mission_id_[last.who]) =>
             last.pub = <<>>
       /\ last.pub # <<>> =>
             /\ Len(last.pub) = 1
             /\ last.pub[1].topic = PollTopic
             /\ last.pub[1].msg.msg_type = REQUEST
             /\ last.pub[1].msg.robot_id = last.who
             /\ last.msg.msg_type = COMMAND
  /\ \A m \in OnTopic(PollTopic) :
       m.msg_type = REQUEST => m.mission_id = mission_id_[m.robot_id]

\* C4 witness (scenario B): a working worker was handed a poll for its own
\* tag and published nothing, while the other worker has answered a poll.
C4_Witness ==
  /\ IsWorkerPoll
  /\ last.msg.msg_type = COMMAND
  /\ last.msg.robot_id = ""
  /\ last.pub = <<>>
  /\ last.pre.working_
  /\ last.msg.mission_id = mission_id_[last.who]
  /\ \E w \in Workers \ {last.who} : Request(w) \in net

\* C5 - idempotent duplicate command: a command handed to a worker that is
\* working changes none of its fields, steps nothing and publishes nothing.
C5_DuplicateCommand ==
  (IsWorkerCommand /\ last.pre.working_) =>
     /\ WNow(last.who) = last.pre
     /\ last.pub = <<>>
     /\ last.steps = 0

\* C5 witness: the command a worker is executing was handed to it again
\* after it had stepped the tree.
C5_Witness ==
  /\ IsWorkerCommand
  /\ last.pre.working_
  /\ last.msg = last.pre.mission_
  /\ last.pre.step_log # <<>>

\* C6 - build failure: when create_tree() fails for an accepted command the
\* worker publishes exactly one FAILURE status, at once, is not working, never
\* steps the tree, and its later ticks publish nothing more.
C6_BuildFailure ==
  /\ (IsWorkerCommand /\ last.ret = "false") =>
       /\ last.pub = <<StatusMsg(last.who, FAILURE)>>
       /\ ~working_[last.who]
       /\ last.steps = 0
  /\ (IsWorkerTimer /\ ~last.pre.working_) =>
       /\ last.pub = <<>>
       /\ last.steps = 0

\* C7 - execution reporting: a tick of a working worker steps the tree once
\* and publishes exactly one status, equal to the step result, on its own
\* status topic; working_ stays true exactly on RUNNING; a tick of a worker
\* that is not working and every message handler step nothing.  The results
\* of a tree are RUNNING k times, then at most one terminal result.
C7_ExecutionReporting ==
  /\ (IsWorkerTimer /\ last.pre.working_) =>
       /\ last.steps = 1
       /\ last.pub = <<Pub(StatusTopic(last.who),
                           Msg(STATUS, last.who, "", last.ret, ""))>>
       /\ step_log[last.who] = Append(last.pre.step_log, last.ret)
       /\ working_[last.who] <=> last.ret = RUNNING
       /\ last.pub[1] \in net
  /\ (IsWorkerTimer /\ ~last.pre.working_) =>
       /\ last.steps = 0
       /\ step_log[last.who] = last.pre.step_log
  /\ ~IsWorkerTimer => last.steps = 0
  /\ \A w \in Workers : \A i \in 1..Len(step_log[w]) :
       /\ i < Len(step_log[w]) => step_log[w][i] = RUNNING
       /\ (i = Len(step_log[w]) /\ step_log[w][i] \in Terminal) <=>
             (i = Len(step_log[w]) /\ ~working_[w])

\* C7 witness (scenario D within the bound): the tree returned RUNNING twice
\* and then SUCCESS, and a later tick of the worker has stepped nothing.
C7_Witness ==
  /\ IsWorkerTimer
  /\ ~last.pre.working_
  /\ step_log[last.who] = <<RUNNING, RUNNING, SUCCESS>>
  /\ last.steps = 0
  /\ last.pub = <<>>

\* C8 - scenario A: with W1 tagged "patrol-1" and W2 tagged "inspect-1", the
\* poll of the delegator's tick is published on a topic both workers subscribe
\* to, only W1 answers, the command is published on W1's command topic only,
\* and W2 never works nor is sent the tree.
C8_ScenarioA ==
  mission_id_["W2"] = "inspect-1" =>
    /\ (last.op = "Delegate_tick" /\ last.pub # <<>>) =>
         \A w \in Workers : last.pub[1].topic \in WorkerSubscriptions(w)
    /\ commands_sent # <<>> => commands_sent[1].topic = CommandTopic("W1")
    /\ ~working_["W2"]
    /\ "W2" \notin SentTree

\* C9 - onClaim correlation: a REQUEST binds the delegator only after the
\* delegator has polled, and only when its mission_id is the delegator's own
\* mission_id_.
C9_ClaimCorrelation ==
  (remote_identified_ /\ poll_answ_.msg_type = REQUEST) =>
    /\ polls_sent > 0
    /\ poll_answ_.mission_id = delegator_mission_id_

\* C10 - claim timeout: the delegator publishes at most one poll of its own
\* while no answer arrives, and a tick that finds the poll already published
\* and no answer reports the round as abandoned instead of RUNNING.
C10_ClaimTimeout ==
  /\ polls_sent <= 1
  /\ (last.op = "Delegate_tick" /\ last.pre.polls_sent >= 1
        /\ ~last.pre.remote_identified_) =>
       /\ last.pub = <<>>
       /\ last.ret = "NoRespondentError"

\* C11 - InvalidMission: a delegator whose tree text is empty publishes no
\* poll and no command, and its tick reports InvalidMission.
C11_InvalidMission ==
  remote_tree_ = "" =>
    /\ polls_sent = 0
    /\ commands_sent = <<>>
    /\ \A w \in Workers : \A m \in OnTopic(CommandTopic(w)) : m.mission_tree # ""
    /\ last.op = "Delegate_tick" => last.ret = "InvalidMission"

\* C12 - terminal completion is final: a status handed to the delegator
\* after it has stored SUCCESS or FAILURE leaves the stored status, and so
\* the outcome of its tick, as it was.
C12_TerminalIsFinal ==
  (last.op = "remote_status_callback" /\ last.pre.remote_status_ \in Terminal) =>
     remote_status_ = last.pre.remote_status_

\* C13 - target filter on a command: a command whose robot_id is not the
\* worker's id leaves every field of the worker as it was and publishes
\* nothing.
C13_TargetFilter ==
  (IsWorkerCommand /\ last.msg.msg_type = COMMAND /\ last.msg.robot_id # last.who) =>
     /\ WNow(last.who) = last.pre
     /\ last.pub = <<>>
     /\ last.steps = 0

\* C14 - delegator status mapping: tick returns SUCCESS exactly when the
\* delegator is bound and the stored status is SUCCESS, FAILURE exactly when
\* it is bound and the stored status is FAILURE, and RUNNING when it is not
\* bound, has stored no status, or the stored status is RUNNING or IDLE.  A
\* status is stored only once bound, and only a STATUS message of the robot
\* the delegator is bound to.
C14_StatusMapping ==
  /\ last.op = "Delegate_tick" =>
       /\ last.ret \in {RUNNING, SUCCESS, FAILURE}
       /\ last.ret = SUCCESS <=> (remote_identified_ /\ remote_status_ = SUCCESS)
       /\ last.ret = FAILURE <=> (remote_identified_ /\ remote_status_ = FAILURE)
       /\ (~remote_identified_ \/ remote_status_ \in {NoStatus, RUNNING, IDLE}) =>
             last.ret = RUNNING
  /\ last.op = "remote_status_callback" =>
       /\ last.pre.remote_identified_
       /\ last.msg.msg_type = STATUS
       /\ last.msg.robot_id = remote_id_
       /\ remote_status_ = last.msg.status
  /\ remote_status_ # NoStatus => remote_identified_

\* C14 witness: the tree of the worker the delegator is bound to returned
\* RUNNING and then SUCCESS, and the delegator's tick has returned SUCCESS.
C14_Witness ==
  /\ last.op = "Delegate_tick"
  /\ last.ret = SUCCESS
  /\ remote_id_ \in Workers
  /\ step_log[remote_id_] = <<RUNNING, SUCCESS>>

\* C15 - a worker is never stuck: it is not working after it has answered a
\* poll, after a terminal step and after a failed build; whenever it is not
\* working, a poll that names no other robot and whose mission_id is its tag
\* makes it publish its REQUEST, and a command addressed to it is taken: the
\* build is attempted, and when it succeeds the worker works on the new tree.
C15_NeverStuck ==
  /\ \A w \in Workers :
       (step_log[w] # <<>> /\ step_log[w][Len(step_log[w])] \in Terminal) =>
          ~working_[w]
  /\ (IsWorkerCommand /\ last.ret = "false") => ~working_[last.who]
  /\ (IsWorkerPoll /\ last.pub # <<>>) => ~working_[last.who]
  /\ (IsWorkerPoll /\ ~last.pre.working_ /\ last.msg.msg_type = COMMAND
        /\ last.msg.robot_id \in {"", last.who}
        /\ last.msg.mission_id = mission_id_[last.who]) =>
       /\ last.pub = <<Request(last.who)>>
       /\ Request(last.who) \in net
  /\ (IsWorkerCommand /\ ~last.pre.working_ /\ last.msg.msg_type = COMMAND
        /\ last.msg.robot_id = last.who) =>
       /\ last.ret \in {"true", "false"}
       /\ mission_[last.who] = last.msg
       /\ last.ret = "true" =>
            /\ working_[last.who]
            /\ tree_[last.who] = last.msg.mission_tree
            /\ step_log[last.who] = <<>>

\* C15 witness: a worker whose build had failed (can_do_it_ false) was handed
\* a poll for its tag and has published its REQUEST.
C15_Witness ==
  /\ IsWorkerPoll
  /\ ~last.pre.can_do_it_
  /\ ~last.pre.working_
  /\ last.pub = <<Request(last.who)>>
  /\ can_do_it_[last.who]

\* the terminal result of the worker the delegator is bound to: the last
\* step of its tree, or FAILURE when the build failed
BoundWorkerResult ==
  IF remote_id_ \in Workers /\ step_log[remote_id_] # <<>>
       /\ step_log[remote_id_][Len(step_log[remote_id_])] \in Terminal
    THEN step_log[remote_id_][Len(step_log[remote_id_])]
    ELSE FAILURE

\* C16 - end-to-end liveness: with W1 idle and tagged with the delegator's
\* mission, the delegator's tick eventually returns SUCCESS or FAILURE, and
\* that is the terminal result of the worker it is bound to.
C16_EndToEndLiveness ==
  <>(/\ last.op = "Delegate_tick"
     /\ last.ret \in Terminal
     /\ last.ret = BoundWorkerResult)

\* the worker the delegator is bound to has finished its tree with a
\* terminal engine result
BoundTerminal ==
  /\ remote_identified_
  /\ remote_id_ \in Workers
  /\ ~working_[remote_id_]
  /\ step_log[remote_id_] # <<>>
  /\ step_log[remote_id_][Len(step_log[remote_id_])] \in Terminal

\* C17 - reliable reporting under loss: once the bound worker has finished
\* with a terminal engine result, and as long as it is not started again,
\* the delegator eventually holds SUCCESS or FAILURE as the worker's status
\* although the transport loses up to MaxLost status messages.
C17_ReliableReporting ==
  BoundTerminal ~> (remote_status_ \in Terminal \/ ~BoundTerminal)

\* C18 - stale command is dropped: a command handed to a worker that has
\* already finished that very mission with SUCCESS or FAILURE does not make
\* the worker work again, builds no tree and leaves the record of the
\* finished execution as it was.
C18_StaleCommandDropped ==
  (/\ IsWorkerCommand
   /\ ~last.pre.working_
   /\ last.msg = last.pre.mission_
   /\ last.pre.step_log # <<>>
   /\ last.pre.step_log[Len(last.pre.step_log)] \in Terminal) =>
     /\ ~working_[last.who]
     /\ last.ret = "void"
     /\ step_log[last.who] = last.pre.step_log

\* C19 - no claim echo: a message on the shared topic that is not of the
\* command kind leaves every field of the worker as it was and makes it
\* publish nothing; the poll callback publishes at most one message, only
\* when handed a message of the command kind, and no other handler of the
\* worker publishes a REQUEST.
C19_NoClaimEcho ==
  /\ (IsWorkerPoll /\ last.msg.msg_type # COMMAND) =>
       /\ WNow(last.who) = last.pre
       /\ last.pub = <<>>
       /\ last.steps = 0
  /\ IsWorkerPoll =>
       /\ Len(last.pub) <= 1
       /\ last.pub # <<>> => last.msg.msg_type = COMMAND
  /\ (IsWorkerCommand \/ IsWorkerTimer) =>
       \A i \in 1..Len(last.pub) : last.pub[i].msg.msg_type # REQUEST

\* C19 witness: an idle worker was handed its own REQUEST, which carries its
\* id and its tag, from the shared topic.
C19_Witness ==
  /\ IsWorkerPoll
  /\ last.msg.msg_type = REQUEST
  /\ last.msg.robot_id = last.who
  /\ last.msg.mission_id = mission_id_[last.who]
  /\ ~last.pre.working_
  /\ last.pre.mission_ # last.msg

====
